---- MODULE Spec2Model ----
(***************************************************************************)
(* Model of the sub-cohort selection engine of                             *)
(* src/bids_filtering/generate_bids_subcohorts.py: the four table          *)
(* functions (create_count_table, filter_by_datatype, filter_by_metadata,  *)
(* filter_by_protocol_counts), save_participant_lists and the run          *)
(* orchestrator with the files it writes.                                  *)
(*                                                                         *)
(* Tables.  The imaging index (bids_df) and the metadata table are sets of *)
(* rows; a count table is [columns, rows] with rows a sequence, because    *)
(* pandas keeps the columns of an empty frame and the row order decides    *)
(* the order of the participant lists.  A missing value (NaN / None) is    *)
(* the value NA.                                                           *)
(***************************************************************************)
EXTENDS Integers, Sequences, FiniteSets, TLC

VARIABLES
    call,       \* a direct call of one table function: its name and arguments
    ret,        \* what that call returned (NoRet before the call)
    pc,         \* run: the statement the orchestrator is at
    bids_df,    \* run: the imaging index, restricted at line 246
    metadata_df,            \* run: the scanner metadata table
    filter_spec,            \* run: filter_spec_dict[bids_filter_spec_name]
    metadata_participants,  \* run: line 231
    datatype_participants,  \* run: line 239
    count_df,               \* run: line 250
    filtered_df,            \* run: line 262
    availability_df,        \* run: lines 208, 234, 242, 266-267
    files,      \* the files and directories written so far, path -> content
    steps,      \* run: the filter stages executed so far
    dataset,    \* migrate_dataset: the files and directories of the dataset
    config,     \* migrate_dataset: the configuration loaded at line 149
    loop        \* migrate_dataset: position in the loops of lines 167-169

vars == <<call, ret, files, pc, bids_df, metadata_df, filter_spec,
          metadata_participants, datatype_participants, count_df,
          filtered_df, availability_df, steps, dataset, config, loop>>

runVars == <<pc, bids_df, metadata_df, filter_spec,
             metadata_participants, datatype_participants, count_df,
             filtered_df, availability_df, steps>>

migVars == <<dataset, config, loop>>

\* migrate_dataset has not been called.
MigIdle ==
    /\ dataset = [name |-> "none"]
    /\ config = [name |-> "none"]
    /\ loop = [type |-> 0, pipeline |-> 0]

-----------------------------------------------------------------------------
(* Bounds of the model. *)

MaxRecords == 3      \* rows of an imaging index
MaxMetaRows == 2     \* rows of a metadata table
MaxDatatypes == 2    \* length of a required-datatypes list
MaxRows == 2         \* rows of a count table handed to filter_by_protocol_counts
MaxCount == 1        \* largest count in such a table and largest required value
MaxGroups == 2       \* criterion groups of a protocol_spec

-----------------------------------------------------------------------------
(* Values. *)

NA == "NA"
\* Subject and session labels are not numerals, so pandas.read_csv (lines 20
\* and 44) returns them as to_csv wrote them.
Subs == {"A", "B"}
Sess == {"BL", "FU"}
Datatypes == {"anat", "func"}
Runs == {"1", "2"}
TagValues == {"GE", "SIEMENS"}
Tags == {"Manufacturer", "Model"}

Range(s) == {s[i] : i \in 1..Len(s)}

\* pandas sorts group keys ascending; the strings of the model in that order.
ValueOrder == <<"1", "2", "A", "B", "BL", "FU", "anat", "func">>
Rank(v) == CHOOSE i \in 1..Len(ValueOrder) : ValueOrder[i] = v

SeqsUpTo(S, n) == UNION {[1..k -> S] : k \in 0..n}
RECURSIVE SubsetsUpTo(_, _)
SubsetsUpTo(S, n) ==
    IF n = 0 THEN {{}}
    ELSE LET smaller == SubsetsUpTo(S, n - 1)
         IN  smaller \cup {T \cup {x} : T \in smaller, x \in S}

-----------------------------------------------------------------------------
(* Outcomes of a call: a value, or the exception that ended it. *)

NoRet == [exc |-> "not called"]
Raise(e) == [exc |-> e]
Return(v) == [exc |-> "none", value |-> v]
Raised(r) == r.exc \notin {"none", "not called"}
Returned(r) == r.exc = "none"

-----------------------------------------------------------------------------
(* create_count_table, lines 86-101. *)

\* The columns of the imaging index the model keeps (PARSE_TAGS, line 10).
BidsColumns == {"sub", "ses", "datatype", "run"}

\* Line 93: the name of the column that holds the distinct-value count of col.
CountColNamePlain(col) == "n_" \o col
CountColName(col) == "n_" \o col \o "s"

\* Series.nunique(): the number of distinct values, missing values left out.
NUnique(values) == Cardinality(values \ {NA})

\* DataFrame.groupby(cols): the distinct key combinations; rows with a missing
\* value in a key column belong to no group (dropna=True, the default).
GroupKeys(df, cols) ==
    {[c \in cols |-> r[c]] : r \in {q \in df : \A c \in cols : q[c] # NA}}

GroupRows(df, key) == {r \in df : \A c \in DOMAIN key : r[c] = key[c]}

\* groupby sorts the group keys, column by column in the order of cols.
KeyLess(a, b, cols) ==
    \E i \in 1..Len(cols) :
        /\ \A j \in 1..(i - 1) : a[cols[j]] = b[cols[j]]
        /\ Rank(a[cols[i]]) < Rank(b[cols[i]])

RECURSIVE SortKeys(_, _)
SortKeys(keys, cols) ==
    IF keys = {} THEN <<>>
    ELSE LET first == CHOOSE k \in keys :
                          \A o \in keys \ {k} : KeyLess(k, o, cols)
         IN  <<first>> \o SortKeys(keys \ {first}, cols)

\* Line 91: one cell of the aggregated frame.
GroupCountRecords(df, key, col) == Cardinality(GroupRows(df, key))
GroupCount(df, key, col) == NUnique({r[col] : r \in GroupRows(df, key)})

CountRow(df, key, count_cols) ==
    [c \in DOMAIN key \cup {CountColName(x) : x \in Range(count_cols)} |->
        IF c \in DOMAIN key THEN key[c]
        ELSE GroupCount(df, key,
                 CHOOSE x \in Range(count_cols) : CountColName(x) = c)]

create_count_table(df, groupby_cols, count_cols) ==
    IF ~(Range(groupby_cols) \cup Range(count_cols) \subseteq BidsColumns)
    THEN Raise("KeyError")
    ELSE LET keys == SortKeys(GroupKeys(df, Range(groupby_cols)), groupby_cols)
         IN  Return([columns |-> groupby_cols \o
                         [i \in 1..Len(count_cols) |-> CountColName(count_cols[i])],
                     rows |-> [i \in 1..Len(keys) |->
                                  CountRow(df, keys[i], count_cols)]])

\* df['sub'].unique() (lines 118, 231, 239): the subjects of a table.
SubjectsOf(df) == {r.sub : r \in df}

-----------------------------------------------------------------------------
(* filter_by_datatype, lines 103-112. *)

\* Line 109: the count a subject's distinct selected datatypes must equal.
RequiredCount(datatypes) == Len(datatypes)

filter_by_datatype(df, datatypes) ==
    LET selected == {r \in df : r.datatype \in Range(datatypes)}
        nunique(s) == NUnique({r.datatype : r \in {q \in selected : q.sub = s}})
        participants_with_all_datatypes ==
            {s \in {r.sub : r \in selected} :
                nunique(s) = RequiredCount(datatypes)}
    IN  {r \in selected : r.sub \in participants_with_all_datatypes}

-----------------------------------------------------------------------------
(* filter_by_metadata, lines 114-124.  metadata_criteria is the JSON object *)
(* in its key order: a sequence of [tag, value] items.                      *)

\* Line 121: the subjects with a row whose tag value is in the allow-list.
SubjectsWithTag(df, tag, value) == {r.sub : r \in {q \in df : q[tag] \in value}}

\* Line 121: one pass of the loop body.
NarrowLastWins(participants, df, item) == SubjectsWithTag(df, item.tag, item.value)
Narrow(participants, df, item) ==
    participants \cap SubjectsWithTag(df, item.tag, item.value)

RECURSIVE MetadataLoop(_, _, _)
MetadataLoop(participants, df, items) ==
    IF items = <<>> THEN participants
    ELSE MetadataLoop(Narrow(participants, df, Head(items)), df, Tail(items))

participants_with_metadata(df, metadata_criteria) ==
    MetadataLoop({r.sub : r \in df}, df, metadata_criteria)

filter_by_metadata(df, metadata_criteria) ==
    {r \in df : r.sub \in participants_with_metadata(df, metadata_criteria)}

-----------------------------------------------------------------------------
(* filter_by_protocol_counts, lines 126-156.  A criterion group is a        *)
(* function from count-table column names to required values.               *)

\* Lines 136-139: the comparison of one count with its required value.
CountMatchesSwapped(have, required, force_exact_counts) ==
    IF force_exact_counts THEN have >= required ELSE have = required
CountMatches(have, required, force_exact_counts) ==
    IF force_exact_counts THEN have = required ELSE have >= required

\* Lines 134-139: the mask of one group at one row.
GroupMaskNonEmpty(row, crit, force_exact_counts) ==
    /\ DOMAIN crit # {}
    /\ \A tag \in DOMAIN crit :
           CountMatches(row[tag], crit[tag], force_exact_counts)
GroupMaskAnyPair(row, crit, force_exact_counts) ==
    \E tag \in DOMAIN crit : CountMatches(row[tag], crit[tag], force_exact_counts)
GroupMask(row, crit, force_exact_counts) ==
    \A tag \in DOMAIN crit : CountMatches(row[tag], crit[tag], force_exact_counts)

\* Lines 144-148: criteria_met of one row.
CriteriaMetFailOpen(row, protocol_spec, force_exact_counts) ==
    IF Len(protocol_spec) > 0
    THEN \E i \in 1..Len(protocol_spec) :
             GroupMask(row, protocol_spec[i], force_exact_counts)
    ELSE TRUE
CriteriaMet(row, protocol_spec, force_exact_counts) ==
    IF Len(protocol_spec) > 0
    THEN \E i \in 1..Len(protocol_spec) :
             GroupMask(row, protocol_spec[i], force_exact_counts)
    ELSE FALSE

\* Lines 146-148: the caller's table with the criteria_met column set.
WithCriteriaMet(table, protocol_spec, force_exact_counts) ==
    [columns |-> IF "criteria_met" \in Range(table.columns) THEN table.columns
                 ELSE Append(table.columns, "criteria_met"),
     rows |-> [i \in 1..Len(table.rows) |->
                 [c \in DOMAIN table.rows[i] \cup {"criteria_met"} |->
                     IF c = "criteria_met"
                     THEN CriteriaMet(table.rows[i], protocol_spec, force_exact_counts)
                     ELSE table.rows[i][c]]]]

\* Series.unique(): the distinct values in order of first appearance.
RECURSIVE Unique(_)
Unique(s) ==
    IF s = <<>> THEN <<>>
    ELSE LET front == Unique(SubSeq(s, 1, Len(s) - 1))
         IN  IF s[Len(s)] \in Range(front) THEN front
             ELSE Append(front, s[Len(s)])

IsMetAlways(row) == TRUE
IsMet(row) == row["criteria_met"]
SesIs(row, ses) == row["ses"] = ses

\* Line 150: the rows kept, grouped by session (sorted, missing sessions
\* dropped), the subjects of each session in order of first appearance.
ParticipantsBySession(table) ==
    LET met == SelectSeq(table.rows, IsMet)
        sessions == SortKeys({[ses |-> met[i]["ses"]] :
                                 i \in {j \in 1..Len(met) : met[j]["ses"] # NA}},
                             <<"ses">>)
        subsOf(ses) ==
            LET of == SelectSeq(met, LAMBDA row : SesIs(row, ses))
            IN  Unique([i \in 1..Len(of) |-> of[i]["sub"]])
    IN  [columns |-> <<"ses", "participants">>,
         rows |-> [i \in 1..Len(sessions) |->
                     [ses |-> sessions[i].ses,
                      participants |-> subsOf(sessions[i].ses)]]]

\* Lines 133-139: count_df[tag] of a column the table does not have.
UnknownTagIfRows(table, protocol_spec) ==
    /\ Len(table.rows) > 0
    /\ \E i \in 1..Len(protocol_spec) :
           \E tag \in DOMAIN protocol_spec[i] : tag \notin Range(table.columns)
UnknownTag(table, protocol_spec) ==
    \E i \in 1..Len(protocol_spec) :
        \E tag \in DOMAIN protocol_spec[i] : tag \notin Range(table.columns)

filter_by_protocol_counts(table, protocol_spec, force_exact_counts) ==
    IF UnknownTag(table, protocol_spec) THEN Raise("KeyError")
    ELSE IF ~({"ses", "sub"} \subseteq Range(table.columns)) THEN Raise("KeyError")
    ELSE Return(ParticipantsBySession(
                    WithCriteriaMet(table, protocol_spec, force_exact_counts)))

\* The caller's count_df after the call: line 146/148 assigns the column
\* unless the loop of lines 133-141 raised first.
count_df_after(table, protocol_spec, force_exact_counts) ==
    IF UnknownTag(table, protocol_spec) THEN table
    ELSE WithCriteriaMet(table, protocol_spec, force_exact_counts)

-----------------------------------------------------------------------------
(* save_participant_lists, lines 159-178.  The file system is a function    *)
(* from paths to what is there.                                             *)

Dir == [kind |-> "dir"]
File(data) == [kind |-> "file", data |-> data]
NoFiles == [p \in {} |-> Dir]

MakeDirs(fs, path) == (path :> Dir) @@ fs
WriteFile(fs, path, data) == (path :> File(data)) @@ fs

ParticipantListPath(output_dir, criteria_name, ses) ==
    output_dir \o "/" \o criteria_name \o "/participants_" \o ses \o ".txt"

\* Lines 163-165: the early return on an empty table.
NothingToSave(table) == Len(table.rows) = 0

\* Lines 170-176: one file per row of the table, one subject per line.
save_participant_lists(fs, table, criteria_name, output_dir) ==
    IF NothingToSave(table) THEN fs
    ELSE LET made == MakeDirs(fs, output_dir \o "/" \o criteria_name)
             paths == {ParticipantListPath(output_dir, criteria_name,
                                           table.rows[i].ses) :
                          i \in 1..Len(table.rows)}
             listOf(path) ==
                 LET i == CHOOSE j \in 1..Len(table.rows) :
                              ParticipantListPath(output_dir, criteria_name,
                                                  table.rows[j].ses) = path
                 IN  table.rows[i].participants
         IN  [path \in paths |-> File(listOf(path))] @@ made

-----------------------------------------------------------------------------
(* Direct calls of the table functions: the arguments are drawn in the      *)
(* initial state and one action applies the function.                      *)

BidsRecords == [sub : Subs, ses : Sess \cup {NA}, datatype : Datatypes,
                run : Runs \cup {NA}]
BidsTables == SubsetsUpTo(BidsRecords, MaxRecords)

GroupbyChoices == {<<"sub", "ses">>, <<"ses", "sub">>,
                   <<"sub", "ses", "datatype">>, <<"sub">>}
CountChoices == {<<"run">>, <<"run", "datatype">>}

MetadataRecords == [sub : Subs, ses : Sess,
                    Manufacturer : TagValues \cup {NA},
                    Model : TagValues \cup {NA}]
MetadataTables == SubsetsUpTo(MetadataRecords, MaxMetaRows)

\* A criteria mapping: items with distinct tags, each with an allow-list.
CriteriaItems == [tag : Tags, value : SUBSET TagValues]
MetadataCriteria ==
    {items \in SeqsUpTo(CriteriaItems, Cardinality(Tags)) :
        \A i, j \in 1..Len(items) : i # j => items[i].tag # items[j].tag}

CountNames == {"n_runs", "n_datatypes"}
CountRows == [sub : Subs, ses : Sess, n_runs : 0..MaxCount,
              n_datatypes : 0..MaxCount]
CountTables ==
    {[columns |-> <<"sub", "ses", "n_runs", "n_datatypes">>, rows |-> rows] :
        rows \in SeqsUpTo(CountRows, MaxRows)}
ProtocolGroups == UNION {[tags -> 0..MaxCount] : tags \in SUBSET CountNames}
ProtocolSpecs == SeqsUpTo(ProtocolGroups, MaxGroups)

OutputDir == "out"
SpecName == "cohort"

RunIdle ==
    /\ pc = "idle"
    /\ bids_df = {}
    /\ metadata_df = {}
    /\ filter_spec = [name |-> "none"]
    /\ metadata_participants = {}
    /\ datatype_participants = {}
    /\ count_df = [columns |-> <<>>, rows |-> <<>>]
    /\ filtered_df = [columns |-> <<>>, rows |-> <<>>]
    /\ availability_df = <<>>
    /\ steps = <<>>
    /\ MigIdle

CallCreateCountTable ==
    /\ call.fn = "create_count_table"
    /\ ret = NoRet
    /\ ret' = create_count_table(call.bids_df, call.groupby_cols, call.count_cols)
    /\ UNCHANGED <<migVars, call, files, runVars>>

CallFilterByDatatype ==
    /\ call.fn = "filter_by_datatype"
    /\ ret = NoRet
    /\ ret' = Return(filter_by_datatype(call.bids_df, call.datatypes))
    /\ UNCHANGED <<migVars, call, files, runVars>>

CallFilterByMetadata ==
    /\ call.fn = "filter_by_metadata"
    /\ ret = NoRet
    /\ ret' = Return(filter_by_metadata(call.metadata_df, call.metadata_criteria))
    /\ UNCHANGED <<migVars, call, files, runVars>>

\* The count table is the caller's object: the call leaves its new column in it.
CallFilterByProtocolCounts ==
    /\ call.fn = "filter_by_protocol_counts"
    /\ ret = NoRet
    /\ ret' = filter_by_protocol_counts(call.count_df, call.protocol_spec,
                                        call.force_exact_counts)
    /\ call' = [call EXCEPT !.count_df =
                   count_df_after(call.count_df, call.protocol_spec,
                                  call.force_exact_counts)]
    /\ UNCHANGED <<files, runVars, migVars>>

\* The caller hands the returned table on to save_participant_lists (line 272).
CallSaveParticipantLists ==
    /\ call.fn = "filter_by_protocol_counts"
    /\ Returned(ret)
    /\ files = NoFiles
    /\ files' = save_participant_lists(files, ret.value, SpecName, OutputDir)
    /\ call' = [call EXCEPT !.fn = "save_participant_lists"]
    /\ UNCHANGED <<ret, runVars, migVars>>

InitCountTable ==
    /\ call \in {c \in [fn : {"create_count_table"}, bids_df : BidsTables,
                        groupby_cols : GroupbyChoices,
                        count_cols : CountChoices] :
                    Range(c.groupby_cols) \cap Range(c.count_cols) = {}}
    /\ ret = NoRet
    /\ files = NoFiles
    /\ RunIdle

InitDatatype ==
    /\ call \in [fn : {"filter_by_datatype"}, bids_df : BidsTables,
                 datatypes : SeqsUpTo(Datatypes, MaxDatatypes)]
    /\ ret = NoRet
    /\ files = NoFiles
    /\ RunIdle

InitMetadata ==
    /\ call \in [fn : {"filter_by_metadata"}, metadata_df : MetadataTables,
                 metadata_criteria : MetadataCriteria]
    /\ ret = NoRet
    /\ files = NoFiles
    /\ RunIdle

InitProtocol ==
    /\ call \in [fn : {"filter_by_protocol_counts"}, count_df : CountTables,
                 protocol_spec : ProtocolSpecs, force_exact_counts : BOOLEAN]
    /\ ret = NoRet
    /\ files = NoFiles
    /\ RunIdle

NextCountTable == CallCreateCountTable
NextDatatype == CallFilterByDatatype
NextMetadata == CallFilterByMetadata
NextProtocol == CallFilterByProtocolCounts \/ CallSaveParticipantLists

SpecCountTable == InitCountTable /\ [][NextCountTable]_vars
SpecDatatype == InitDatatype /\ [][NextDatatype]_vars
SpecMetadata == InitMetadata /\ [][NextMetadata]_vars
SpecProtocol == InitProtocol /\ [][NextProtocol]_vars

\* Calls that name a column the table does not have: a groupby or count
\* column that is no column of the index, a criterion on a column that is no
\* column of the count table.
UnknownGroupbyChoices == {<<"session">>, <<"sub", "session">>}
UnknownCountChoices == {<<"runs">>, <<"run", "runs">>}
ColumnTables == {t \in CountTables : Len(t.rows) <= 1}
ColumnGroups ==
    UNION {[tags -> {1}] : tags \in SUBSET (CountNames \cup {"n_run"})}
ColumnSpecs == SeqsUpTo(ColumnGroups, MaxGroups)

InitColumns ==
    /\ call \in
           {c \in [fn : {"create_count_table"},
                   bids_df : SubsetsUpTo(BidsRecords, 1),
                   groupby_cols : GroupbyChoices \cup UnknownGroupbyChoices,
                   count_cols : CountChoices \cup UnknownCountChoices] :
               Range(c.groupby_cols) \cap Range(c.count_cols) = {}}
           \cup [fn : {"filter_by_protocol_counts"}, count_df : ColumnTables,
                 protocol_spec : ColumnSpecs, force_exact_counts : BOOLEAN]
    /\ ret = NoRet
    /\ files = NoFiles
    /\ RunIdle

NextColumns ==
    \/ CallCreateCountTable
    \/ CallFilterByProtocolCounts
    \/ CallSaveParticipantLists

SpecColumns == InitColumns /\ [][NextColumns]_vars

-----------------------------------------------------------------------------
(* run, lines 181-272: the orchestrator, one action per stage.  The filter  *)
(* specification is the JSON object as loaded: a record whose domain is the *)
(* set of keys present, so that a lookup of a missing key raises KeyError.  *)

IndexPath == OutputDir \o "/bids2table_index.tsv"
MetadataPath == OutputDir \o "/bids2table_metadata.tsv"
SpecDir == OutputDir \o "/" \o SpecName
CountTablePath == SpecDir \o "/count_table.tsv"
FilteredPath == SpecDir \o "/filtered_participants.tsv"

HasKey(dict, key) == key \in DOMAIN dict
DropKey(dict, key) == [k \in DOMAIN dict \ {key} |-> dict[k]]

MakeSpec(datatypes, items, protocol_spec, force, groupby_cols, count_cols) ==
    [scanner_metadata |-> [sidecar_tags |-> <<"Manufacturer", "Model">>],
     criteria |-> [extra_options |-> [force_exact_counts |-> force],
                   scanner_metadata |-> [sidecar_tags |-> items],
                   datatypes |-> datatypes,
                   protocol_spec |-> protocol_spec],
     groupby_cols |-> groupby_cols,
     count_cols |-> count_cols]

\* The specifications the run is given: complete ones, and one of them with
\* each required key left out in turn.
RunDatatypes == {<<"anat">>, <<"anat", "func">>}
RunCriteria == {<<>>, <<[tag |-> "Manufacturer", value |-> {"GE"}]>>}
RunProtocolSpecs == {<<>>, <<[n_datatypes |-> 2]>>, <<[n_datatype |-> 2]>>}
CompleteSpecs ==
    {MakeSpec(d, m, p, f, <<"sub", "ses">>, <<"datatype">>) :
        d \in RunDatatypes, m \in RunCriteria, p \in RunProtocolSpecs,
        f \in BOOLEAN}
BaseSpec == MakeSpec(<<"anat">>, <<>>, <<[n_datatypes |-> 1]>>, FALSE,
                     <<"sub", "ses">>, <<"datatype">>)
IncompleteSpecs ==
    {DropKey(BaseSpec, k) :
        k \in {"scanner_metadata", "criteria", "groupby_cols", "count_cols"}}
    \cup {[BaseSpec EXCEPT !.criteria = DropKey(BaseSpec.criteria, k)] :
            k \in {"extra_options", "scanner_metadata", "datatypes",
                   "protocol_spec"}}
\* A specification that also groups by datatype, so that a subject can have
\* several count-table rows in one session.
DatatypeGroupSpec == MakeSpec(<<"anat">>, <<>>, <<[n_runs |-> 1]>>, FALSE,
                              <<"datatype", "sub", "ses">>, <<"run">>)
RunFilterSpecs == CompleteSpecs \cup IncompleteSpecs \cup {DatatypeGroupSpec}

\* What the indexer can return, and what the sidecars can hold.
RunBidsRecords == {r \in BidsRecords : r.ses # NA /\ r.run = "1"}
RunBidsTables == SubsetsUpTo(RunBidsRecords, MaxRecords)
RunMetadataRecords ==
    {r \in MetadataRecords :
        r.ses = "BL" /\ r.Manufacturer # NA /\ r.Model = NA}
RunMetadataTables == SubsetsUpTo(RunMetadataRecords, MaxMetaRows)

\* Lines 48-74: one metadata row per T1w file of the index, sub and ses taken
\* from its path; the tag values are whatever the sidecar holds.
SidecarTables(df) ==
    {m \in RunMetadataTables :
        /\ \A r \in m : \E q \in df :
               q.datatype = "anat" /\ q.sub = r.sub /\ q.ses = r.ses
        /\ \A r1, r2 \in m : (r1.sub = r2.sub /\ r1.ses = r2.ses) => r1 = r2}

\* Lines 208, 233, 241: df.groupby(['ses'])['sub'].nunique() with the count
\* column called name: one row per session, sessions sorted.
SubjectsPerSession(df, name) ==
    LET keys == SortKeys(GroupKeys(df, {"ses"}), <<"ses">>)
    IN  [i \in 1..Len(keys) |->
            ("ses" :> keys[i].ses) @@
            (name :> NUnique({r.sub : r \in GroupRows(df, keys[i])}))]

\* Line 263: the number of participants of each row of the filtered table.
ParticipantCounts(table, name) ==
    [i \in 1..Len(table.rows) |->
        ("ses" :> table.rows[i].ses) @@
        (name :> Len(table.rows[i].participants))]

\* Lines 234, 242, 266: merge(right, on='ses', how='left').  A session that
\* right does not have gets a missing value, here a row without the column.
MergeLeft(left, right, col) ==
    [i \in 1..Len(left) |->
        IF \E j \in 1..Len(right) : right[j].ses = left[i].ses
        THEN left[i] @@
             (col :> right[CHOOSE j \in 1..Len(right) :
                               right[j].ses = left[i].ses][col])
        ELSE left[i]]

\* The columns of the availability table of line 266.
AvailabilityColumns(name) ==
    {"ses", "total_participants", "metadata_participants",
     "datatype_participants", name}

\* Line 267: fillna(0).
FillNa(rows, columns) ==
    [i \in 1..Len(rows) |->
        [c \in columns |-> IF c \in DOMAIN rows[i] THEN rows[i][c] ELSE 0]]

Fail(exc) ==
    /\ pc' = "failed"
    /\ ret' = Raise(exc)

\* Lines 185-208: the output directory and the imaging index, read from the
\* cached table or indexed and then cached.
GetBidsDf ==
    /\ pc = "get_bids_df"
    /\ IF call.read_bids_df
       THEN /\ bids_df' = files[IndexPath].data
            /\ files' = MakeDirs(files, OutputDir)
       ELSE \E t \in RunBidsTables :
                /\ bids_df' = t
                /\ files' = WriteFile(MakeDirs(files, OutputDir), IndexPath, t)
    /\ availability_df' = SubjectsPerSession(bids_df', "total_participants")
    /\ pc' = "load_spec"
    /\ UNCHANGED <<migVars, call, ret, metadata_df, filter_spec,
                   metadata_participants, datatype_participants, count_df,
                   filtered_df, steps>>

\* Lines 210-217: the selected specification and its output directory.
LoadFilterSpec ==
    /\ pc = "load_spec"
    /\ \E spec \in RunFilterSpecs : filter_spec' = spec
    /\ files' = MakeDirs(files, SpecDir)
    /\ pc' = "get_scanner_metadata"
    /\ UNCHANGED <<migVars, call, ret, bids_df, metadata_df,
                   metadata_participants, datatype_participants, count_df,
                   filtered_df, availability_df, steps>>

\* Lines 219-221: the scanner metadata table, read from the cached table or
\* extracted from the sidecars and then cached.
GetScannerMetadata ==
    /\ pc = "get_scanner_metadata"
    /\ IF ~HasKey(filter_spec, "scanner_metadata")
       THEN Fail("KeyError") /\ UNCHANGED <<metadata_df, files>>
       ELSE /\ IF call.read_metadata_df
               THEN /\ metadata_df' = files[MetadataPath].data
                    /\ UNCHANGED files
               ELSE \E m \in SidecarTables(bids_df) :
                        /\ metadata_df' = m
                        /\ files' = WriteFile(files, MetadataPath, m)
            /\ pc' = "filter_by_metadata"
            /\ UNCHANGED ret
    /\ UNCHANGED <<migVars, call, bids_df, filter_spec,
                   metadata_participants, datatype_participants, count_df,
                   filtered_df, availability_df, steps>>

\* Line 76: a table extracted from no sidecar at all is a frame without
\* columns, and metadata_df['sub'] at line 118 raises KeyError.
NoMetadataColumns == ~call.read_metadata_df /\ metadata_df = {}

\* Lines 225-233: the key lookups of lines 225 and 229, then the metadata
\* filter.
FilterByMetadata ==
    /\ pc = "filter_by_metadata"
    /\ IF \/ ~HasKey(filter_spec, "criteria")
          \/ ~HasKey(filter_spec.criteria, "extra_options")
          \/ ~HasKey(filter_spec.criteria, "scanner_metadata")
          \/ ~HasKey(filter_spec.criteria.scanner_metadata, "sidecar_tags")
       THEN /\ Fail("KeyError")
            /\ UNCHANGED <<metadata_participants, availability_df, steps>>
       ELSE IF NoMetadataColumns
       THEN /\ Fail("KeyError")
            /\ UNCHANGED <<metadata_participants, availability_df, steps>>
       ELSE /\ metadata_participants' =
                   SubjectsOf(filter_by_metadata(metadata_df,
                       filter_spec.criteria.scanner_metadata.sidecar_tags))
            /\ availability_df' = MergeLeft(availability_df,
                   SubjectsPerSession(filter_by_metadata(metadata_df,
                       filter_spec.criteria.scanner_metadata.sidecar_tags),
                       "metadata_participants"),
                   "metadata_participants")
            /\ steps' = Append(steps, "filter_by_metadata")
            /\ pc' = "filter_by_datatype"
            /\ UNCHANGED ret
    /\ UNCHANGED <<migVars, call, files, bids_df, metadata_df, filter_spec,
                   datatype_participants, count_df, filtered_df>>

\* Lines 237-241: the lookup of line 237, then the datatype filter.
FilterByDatatype ==
    /\ pc = "filter_by_datatype"
    /\ IF ~HasKey(filter_spec.criteria, "datatypes")
       THEN /\ Fail("KeyError")
            /\ UNCHANGED <<datatype_participants, availability_df, steps>>
       ELSE /\ datatype_participants' =
                   SubjectsOf(filter_by_datatype(bids_df,
                                                 filter_spec.criteria.datatypes))
            /\ availability_df' = MergeLeft(availability_df,
                   SubjectsPerSession(filter_by_datatype(bids_df,
                       filter_spec.criteria.datatypes), "datatype_participants"),
                   "datatype_participants")
            /\ steps' = Append(steps, "filter_by_datatype")
            /\ pc' = "create_count_table"
            /\ UNCHANGED ret
    /\ UNCHANGED <<migVars, call, files, bids_df, metadata_df, filter_spec,
                   metadata_participants, count_df, filtered_df>>

\* Lines 245-246: the index restricted to the subjects that passed both.
RestrictDatatypeOnly(df, datatype_subs, metadata_subs) ==
    {r \in df : r.sub \in datatype_subs}
Restrict(df, datatype_subs, metadata_subs) ==
    {r \in df : r.sub \in datatype_subs \cap metadata_subs}

\* Lines 245-255: the restriction, the lookups of lines 252-253, then the
\* count table, which create_count_table saves at line 98.
CreateCountTable ==
    /\ pc = "create_count_table"
    /\ bids_df' = Restrict(bids_df, datatype_participants, metadata_participants)
    /\ IF ~HasKey(filter_spec, "groupby_cols") \/ ~HasKey(filter_spec, "count_cols")
       THEN Fail("KeyError") /\ UNCHANGED <<count_df, files, steps>>
       ELSE LET made == create_count_table(bids_df', filter_spec.groupby_cols,
                                           filter_spec.count_cols)
            IN  IF Raised(made)
                THEN Fail(made.exc) /\ UNCHANGED <<count_df, files, steps>>
                ELSE /\ count_df' = made.value
                     /\ files' = WriteFile(files, CountTablePath, made.value)
                     /\ steps' = Append(steps, "create_count_table")
                     /\ pc' = "filter_by_protocol_counts"
                     /\ UNCHANGED ret
    /\ UNCHANGED <<migVars, call, metadata_df, filter_spec,
                   metadata_participants, datatype_participants, filtered_df,
                   availability_df>>

\* Lines 258-263: the lookup of line 258, then the protocol criteria; the
\* returned table is saved at line 154 and gets its count column at line 263.
FilterByProtocolCounts ==
    /\ pc = "filter_by_protocol_counts"
    /\ IF ~HasKey(filter_spec.criteria, "protocol_spec")
       THEN /\ Fail("KeyError")
            /\ UNCHANGED <<count_df, filtered_df, availability_df, files, steps>>
       ELSE LET force == IF HasKey(filter_spec.criteria.extra_options,
                                   "force_exact_counts")
                         THEN filter_spec.criteria.extra_options.force_exact_counts
                         ELSE FALSE
                got == filter_by_protocol_counts(count_df,
                           filter_spec.criteria.protocol_spec, force)
            IN  /\ count_df' = count_df_after(count_df,
                                   filter_spec.criteria.protocol_spec, force)
                /\ IF Raised(got)
                   THEN /\ Fail(got.exc)
                        /\ UNCHANGED <<filtered_df, availability_df, files,
                                       steps>>
                   ELSE /\ filtered_df' = got.value
                        /\ availability_df' = FillNa(
                               MergeLeft(availability_df,
                                         ParticipantCounts(got.value, SpecName),
                                         SpecName),
                               AvailabilityColumns(SpecName))
                        /\ files' = WriteFile(files, FilteredPath, got.value)
                        /\ steps' = Append(steps, "filter_by_protocol_counts")
                        /\ pc' = "save_participant_lists"
                        /\ UNCHANGED ret
    /\ UNCHANGED <<migVars, call, bids_df, metadata_df, filter_spec,
                   metadata_participants, datatype_participants>>

\* Line 272: the participant lists.
SaveParticipantLists ==
    /\ pc = "save_participant_lists"
    /\ files' = save_participant_lists(files, filtered_df, SpecName, OutputDir)
    /\ pc' = "done"
    /\ ret' = Return("None")
    /\ UNCHANGED <<migVars, call, bids_df, metadata_df, filter_spec,
                   metadata_participants, datatype_participants, count_df,
                   filtered_df, availability_df, steps>>

\* The command line (lines 279-294) and, for a flag that asks to read a
\* cached table, that table on disk.
Init ==
    /\ call \in [fn : {"run"}, read_bids_df : BOOLEAN, read_metadata_df : BOOLEAN]
    /\ ret = NoRet
    /\ files \in
           {index @@ metadata :
               index \in IF call.read_bids_df
                         THEN {IndexPath :> File(t) : t \in RunBidsTables}
                         ELSE {NoFiles},
               metadata \in IF call.read_metadata_df
                            THEN {MetadataPath :> File(m) : m \in RunMetadataTables}
                            ELSE {NoFiles}}
    /\ pc = "get_bids_df"
    /\ bids_df = {}
    /\ metadata_df = {}
    /\ filter_spec = [name |-> "none"]
    /\ metadata_participants = {}
    /\ datatype_participants = {}
    /\ count_df = [columns |-> <<>>, rows |-> <<>>]
    /\ filtered_df = [columns |-> <<>>, rows |-> <<>>]
    /\ availability_df = <<>>
    /\ steps = <<>>
    /\ MigIdle

Next ==
    \/ GetBidsDf
    \/ LoadFilterSpec
    \/ GetScannerMetadata
    \/ FilterByMetadata
    \/ FilterByDatatype
    \/ CreateCountTable
    \/ FilterByProtocolCounts
    \/ SaveParticipantLists

Spec == Init /\ [][Next]_vars

-----------------------------------------------------------------------------
(* Two runs of run for different specification names, by independent        *)
(* processes, on the same dataset and the same output_dir.  pc, bids_df,     *)
(* metadata_df and ret hold one value per process.  The dataset is fixed:    *)
(* call.index is what the indexer returns for it and call.sidecars what its  *)
(* sidecars hold; a cached table that a process is asked to read is on disk  *)
(* and agrees with the dataset.                                              *)

MaxParRecords == 2   \* rows of the imaging index of the shared dataset

Procs == {"cohort", "other"}
SpecDirOf(name) == OutputDir \o "/" \o name
CountTablePathOf(name) == SpecDirOf(name) \o "/count_table.tsv"
FilteredPathOf(name) == SpecDirOf(name) \o "/filtered_participants.tsv"

\* to_csv (lines 31, 79, 98, 154) opens its file for writing, which empties
\* it, and the rows are there once it has closed the file; read_csv of the
\* emptied file raises EmptyDataError.
Truncated == [kind |-> "emptied"]
ReadCsv(fs, path) ==
    IF fs[path].kind = "emptied" THEN Raise("EmptyDataError")
    ELSE Return(fs[path].data)

\* Lines 225-272 as a function of the tables the run has obtained: the
\* outcome and the files as the run leaves them.
RunFrom(fs, name, spec, df, mdf, extracted) ==
    IF extracted /\ mdf = {} THEN [ret |-> Raise("KeyError"), files |-> fs]
    ELSE
    LET force == IF HasKey(spec.criteria.extra_options, "force_exact_counts")
                 THEN spec.criteria.extra_options.force_exact_counts
                 ELSE FALSE
        metadata_subs == SubjectsOf(filter_by_metadata(mdf,
                             spec.criteria.scanner_metadata.sidecar_tags))
        datatype_subs == SubjectsOf(filter_by_datatype(df,
                             spec.criteria.datatypes))
        made == create_count_table(Restrict(df, datatype_subs, metadata_subs),
                                   spec.groupby_cols, spec.count_cols)
    IN  IF Raised(made) THEN [ret |-> made, files |-> fs]
        ELSE
        LET saved == WriteFile(fs, CountTablePathOf(name), made.value)
            got == filter_by_protocol_counts(made.value,
                       spec.criteria.protocol_spec, force)
        IN  IF Raised(got) THEN [ret |-> got, files |-> saved]
            ELSE [ret |-> Return("None"),
                  files |-> save_participant_lists(
                                WriteFile(saved, FilteredPathOf(name), got.value),
                                got.value, name, OutputDir)]

ParSpecs == {MakeSpec(<<"anat">>, <<>>, <<[n_datatypes |-> 1]>>, FALSE,
                      <<"sub", "ses">>, <<"datatype">>),
             MakeSpec(<<"anat", "func">>,
                      <<[tag |-> "Manufacturer", value |-> {"GE"}]>>,
                      <<[n_datatypes |-> 2]>>, TRUE,
                      <<"sub", "ses">>, <<"datatype">>)}
ParBidsTables == SubsetsUpTo(RunBidsRecords, MaxParRecords)

ParUnused ==
    <<migVars, call, filter_spec, metadata_participants, datatype_participants,
      count_df, filtered_df, availability_df, steps>>

ParFail(p, exc) ==
    /\ pc' = [pc EXCEPT ![p] = "failed"]
    /\ ret' = [ret EXCEPT ![p] = Raise(exc)]

\* Lines 186-201 and 20 or 25-31: the cached index read, or the dataset
\* indexed and the file of the cached index opened for writing.
ParGetBidsDf(p) ==
    /\ pc[p] = "get_bids_df"
    /\ IF call.read_bids_df[p]
       THEN LET got == ReadCsv(files, IndexPath)
            IN  /\ files' = MakeDirs(files, OutputDir)
                /\ IF Raised(got)
                   THEN ParFail(p, got.exc) /\ UNCHANGED bids_df
                   ELSE /\ bids_df' = [bids_df EXCEPT ![p] = got.value]
                        /\ pc' = [pc EXCEPT ![p] = "get_scanner_metadata"]
                        /\ UNCHANGED ret
       ELSE /\ bids_df' = [bids_df EXCEPT ![p] = call.index]
            /\ files' = (IndexPath :> Truncated) @@ MakeDirs(files, OutputDir)
            /\ pc' = [pc EXCEPT ![p] = "save_bids_df"]
            /\ UNCHANGED ret
    /\ UNCHANGED <<metadata_df, ParUnused>>

\* Line 31: the rows of the index written and the file closed.
ParSaveBidsDf(p) ==
    /\ pc[p] = "save_bids_df"
    /\ files' = WriteFile(files, IndexPath, bids_df[p])
    /\ pc' = [pc EXCEPT ![p] = "get_scanner_metadata"]
    /\ UNCHANGED <<ret, bids_df, metadata_df, ParUnused>>

\* Lines 217-221 and 44 or 48-79: the directory of the specification, then
\* the cached metadata read, or the sidecars read and the file of the cached
\* metadata opened for writing.
ParGetScannerMetadata(p) ==
    /\ pc[p] = "get_scanner_metadata"
    /\ IF call.read_metadata_df[p]
       THEN LET got == ReadCsv(files, MetadataPath)
            IN  /\ files' = MakeDirs(files, SpecDirOf(p))
                /\ IF Raised(got)
                   THEN ParFail(p, got.exc) /\ UNCHANGED metadata_df
                   ELSE /\ metadata_df' = [metadata_df EXCEPT ![p] = got.value]
                        /\ pc' = [pc EXCEPT ![p] = "filter"]
                        /\ UNCHANGED ret
       ELSE /\ metadata_df' = [metadata_df EXCEPT ![p] = call.sidecars]
            /\ files' = (MetadataPath :> Truncated)
                            @@ MakeDirs(files, SpecDirOf(p))
            /\ pc' = [pc EXCEPT ![p] = "save_metadata_df"]
            /\ UNCHANGED ret
    /\ UNCHANGED <<bids_df, ParUnused>>

\* Line 79: the rows of the metadata table written and the file closed.
ParSaveMetadataDf(p) ==
    /\ pc[p] = "save_metadata_df"
    /\ files' = WriteFile(files, MetadataPath, metadata_df[p])
    /\ pc' = [pc EXCEPT ![p] = "filter"]
    /\ UNCHANGED <<ret, bids_df, metadata_df, ParUnused>>

\* Lines 225-272: the filters and the outputs of the specification, which no
\* other process reads.
ParFilterAndSave(p) ==
    /\ pc[p] = "filter"
    /\ LET out == RunFrom(files, p, call.spec[p], bids_df[p], metadata_df[p],
                          ~call.read_metadata_df[p])
       IN  /\ files' = out.files
           /\ ret' = [ret EXCEPT ![p] = out.ret]
           /\ pc' = [pc EXCEPT ![p] = IF Raised(out.ret) THEN "failed"
                                      ELSE "done"]
    /\ UNCHANGED <<bids_df, metadata_df, ParUnused>>

InitParallel ==
    /\ \E t \in ParBidsTables :
           call \in [fn : {"parallel"},
                     read_bids_df : [Procs -> BOOLEAN],
                     read_metadata_df : [Procs -> BOOLEAN],
                     spec : [Procs -> ParSpecs],
                     index : {t},
                     sidecars : SidecarTables(t)]
    /\ files = (IF \E p \in Procs : call.read_bids_df[p]
                THEN IndexPath :> File(call.index) ELSE NoFiles)
               @@ (IF \E p \in Procs : call.read_metadata_df[p]
                   THEN MetadataPath :> File(call.sidecars) ELSE NoFiles)
    /\ pc = [p \in Procs |-> "get_bids_df"]
    /\ bids_df = [p \in Procs |-> {}]
    /\ metadata_df = [p \in Procs |-> {}]
    /\ ret = [p \in Procs |-> NoRet]
    /\ filter_spec = [name |-> "none"]
    /\ metadata_participants = {}
    /\ datatype_participants = {}
    /\ count_df = [columns |-> <<>>, rows |-> <<>>]
    /\ filtered_df = [columns |-> <<>>, rows |-> <<>>]
    /\ availability_df = <<>>
    /\ steps = <<>>
    /\ MigIdle

NextParallel ==
    \E p \in Procs :
        \/ ParGetBidsDf(p)
        \/ ParSaveBidsDf(p)
        \/ ParGetScannerMetadata(p)
        \/ ParSaveMetadataDf(p)
        \/ ParFilterAndSave(p)

SpecParallel == InitParallel /\ [][NextParallel]_vars

-----------------------------------------------------------------------------
(* run called again and again for the same specification name and the same  *)
(* output_dir, on a dataset and with criteria that may change between the   *)
(* calls.  The files of a run stay for the next one; steps holds how each   *)
(* run so far ended.                                                        *)

MaxRuns == 2         \* runs of the same specification name, one after another

\* Lines 185-221: the directories, the index and the metadata table of this
\* run, both extracted and cached, and the specification as it is now.
StartRun ==
    /\ pc \in {"idle", "done", "failed"}
    /\ Len(steps) < MaxRuns
    /\ \E t \in ParBidsTables : \E m \in SidecarTables(t) :
           /\ bids_df' = t
           /\ metadata_df' = m
           /\ files' = WriteFile(
                  MakeDirs(WriteFile(MakeDirs(files, OutputDir), IndexPath, t),
                           SpecDir),
                  MetadataPath, m)
    /\ \E spec \in ParSpecs : filter_spec' = spec
    /\ ret' = NoRet
    /\ pc' = "filter_by_metadata"
    /\ UNCHANGED <<migVars, call, metadata_participants, datatype_participants,
                   count_df, filtered_df, availability_df, steps>>

\* Lines 225-272: the filters and the files they save.
FinishRun ==
    /\ pc = "filter_by_metadata"
    /\ LET out == RunFrom(files, SpecName, filter_spec, bids_df, metadata_df,
                          TRUE)
       IN  /\ files' = out.files
           /\ ret' = out.ret
           /\ pc' = IF Raised(out.ret) THEN "failed" ELSE "done"
           /\ steps' = Append(steps, pc')
    /\ UNCHANGED <<migVars, call, bids_df, metadata_df, filter_spec,
                   metadata_participants, datatype_participants, count_df,
                   filtered_df, availability_df>>

InitRerun ==
    /\ call = [fn |-> "run", read_bids_df |-> FALSE, read_metadata_df |-> FALSE]
    /\ ret = NoRet
    /\ files = NoFiles
    /\ RunIdle

NextRerun ==
    \/ StartRun
    \/ FinishRun

SpecRerun == InitRerun /\ [][NextRerun]_vars

-----------------------------------------------------------------------------
(* migrate_dataset, src/migration/migrate_03_to_04.py.  The dataset is a    *)
(* record of what the script looks at: global_config.json, the pipelines    *)
(* directory with the pipeline directories directly in it (where = "top")   *)
(* and in its pipeline-type subdirectories, the back-ups the script makes,  *)
(* and the two status files it renames.                                     *)

MaxEntries == 1      \* pipeline directories in the pipelines directory

\* PIPELINE_TYPE_TO_CONFIG_FIELD_MAP, lines 14-18, in the order of its keys.
PipelineTypes == <<"bidsification", "processing", "extraction">>
ConfigField(pipeline_type) ==
    CASE pipeline_type = "bidsification" -> "BIDS_PIPELINES"
      [] pipeline_type = "processing" -> "PROC_PIPELINES"
      [] pipeline_type = "extraction" -> "EXTRACTION_PIPELINES"

\* <NAME>-<VERSION> of the pipelines, and a directory that is no pipeline.
PipelineNames == {"a-1", "b-1"}
TopNames == PipelineNames \cup {"misc"}

\* Line 188: the directory name has a '-'.
HasDash(name) == name \in PipelineNames

\* A directory of the pipelines directory: whether it holds config.json and
\* whether it holds descriptor or tracker files.
TopEntries ==
    {e \in [where : {"top"}, name : TopNames, config_json : BOOLEAN,
            descriptor : BOOLEAN] : e.descriptor <=> HasDash(e.name)}
TypedEntries ==
    [where : Range(PipelineTypes), name : {"a-1"}, config_json : BOOLEAN,
     descriptor : {TRUE}]

NoPipelinesDir == [exists |-> FALSE, entries |-> {}, typedirs |-> {}]
PipelinesDirs ==
    {NoPipelinesDir} \cup
    {[exists |-> TRUE, entries |-> es,
      typedirs |-> ({e.where : e \in es} \ {"top"}) \cup empty] :
        es \in {x \in SubsetsUpTo(TopEntries \cup TypedEntries, MaxEntries) :
                   \A e1, e2 \in x :
                       (e1.where = e2.where /\ e1.name = e2.name) => e1 = e2},
        empty \in {{}, Range(PipelineTypes)}}

\* global_config.json: whether it has the deprecated fields of line 153, and
\* its pipeline lists, field -> the pipelines listed, in order.
ListedChoices == {<<>>, <<"a-1">>, <<"a-1", "b-1">>}
ConfigLists ==
    UNION {[fields -> ListedChoices] :
              fields \in SUBSET {ConfigField(PipelineTypes[i]) : i \in 1..3}}
NoConfigFile == [exists |-> FALSE, deprecated |-> FALSE, lists |-> <<>>]
ConfigFiles ==
    {NoConfigFile} \cup
    [exists : {TRUE}, deprecated : BOOLEAN, lists : ConfigLists]

Datasets ==
    {[config |-> c, pipelines |-> d, pipelines_backups |-> {},
      config_backups |-> {}, doughnut |-> t, curation_status |-> FALSE,
      imaging_bagel |-> t, processing_status |-> FALSE] :
        c \in ConfigFiles, d \in PipelinesDirs, t \in BOOLEAN}

\* Lines 121, 130, 162, 196, 210, 216, 228, 234: a change is applied unless
\* dry_run is set.
IfNotDryRunAlways(dry_run, changed, unchanged) == changed
IfNotDryRun(dry_run, changed, unchanged) ==
    IF dry_run THEN unchanged ELSE changed

\* Lines 21-31: the subdirectories of pipelines other than the pipeline-type
\* ones, if all the pipeline-type ones are there.
get_extra_pipelines_subdirs(dpath_pipelines) ==
    IF Range(PipelineTypes) \subseteq dpath_pipelines.typedirs
    THEN {e.name : e \in {x \in dpath_pipelines.entries : x.where = "top"}}
    ELSE {}

\* Lines 34-57: some pipelines/<type>/*/config.json exists.
check_already_migrated(ds) ==
    \E e \in ds.pipelines.entries :
        e.where \in Range(PipelineTypes) /\ e.config_json

\* Lines 60-132: the outcome of migrate_pipeline and the dataset after it.
migrate_pipeline(ds, name, pipeline_type, dry_run) ==
    LET current == {e \in ds.pipelines.entries :
                       e.where = "top" /\ e.name = name}
        new == {e \in ds.pipelines.entries :
                   e.where = pipeline_type /\ e.name = name}
        moved == {[e EXCEPT !.where = pipeline_type, !.config_json = TRUE] :
                     e \in current}
    IN  IF current = {}
        THEN [ret |-> Raise("FileNotFoundError"), dataset |-> ds]
        ELSE IF new # {}
        THEN [ret |-> Raise("FileExistsError"), dataset |-> ds]
        ELSE IF \E e \in current : e.config_json
        THEN [ret |-> Raise("FileExistsError"), dataset |-> ds]
        ELSE [ret |-> Return("None"),
              dataset |-> IfNotDryRun(dry_run,
                  [ds EXCEPT !.pipelines.entries = (@ \ current) \cup moved,
                             !.pipelines.typedirs = @ \cup {pipeline_type}],
                  ds)]

MigUnused ==
    <<call, files, bids_df, metadata_df, filter_spec, metadata_participants,
      datatype_participants, count_df, filtered_df, availability_df, steps>>

MigFail(exc) ==
    /\ pc' = "failed"
    /\ ret' = Raise(exc)

\* Lines 137-156: the checks, and the configuration loaded without its
\* deprecated fields.
MigrateStart ==
    /\ pc = "migrate_dataset"
    /\ IF ~dataset.config.exists \/ ~dataset.pipelines.exists
       THEN MigFail("FileNotFoundError") /\ UNCHANGED config
       ELSE IF check_already_migrated(dataset)
       THEN pc' = "done" /\ ret' = Return("None") /\ UNCHANGED config
       ELSE /\ config' = [deprecated |-> FALSE, lists |-> dataset.config.lists]
            /\ pc' = "backup"
            /\ UNCHANGED ret
    /\ UNCHANGED <<dataset, loop, MigUnused>>

\* Lines 158-164: the pipelines directory renamed to its back-up and copied
\* back.
MigrateBackup ==
    /\ pc = "backup"
    /\ dataset' = IfNotDryRun(call.dry_run,
           [dataset EXCEPT !.pipelines_backups =
               @ \cup {[timestamp |-> call.timestamp,
                        pipelines |-> dataset.pipelines]}],
           dataset)
    /\ loop' = [type |-> 1, pipeline |-> 1]
    /\ pc' = "pipelines"
    /\ UNCHANGED <<ret, config, MigUnused>>

\* Line 167: on to the next pipeline type, or out of the loop.
NextType ==
    IF loop.type = Len(PipelineTypes)
    THEN loop' = [type |-> 0, pipeline |-> 0] /\ pc' = "extras"
    ELSE loop' = [type |-> loop.type + 1, pipeline |-> 1] /\ pc' = "pipelines"

\* Lines 178-180: the configuration has no list for the pipeline type.
SkipPipelineType ==
    /\ pc = "pipelines"
    /\ ConfigField(PipelineTypes[loop.type]) \notin DOMAIN config.lists
    /\ NextType
    /\ UNCHANGED <<ret, dataset, config, MigUnused>>

\* Lines 169-177: the next pipeline of the list is migrated.
MigratePipeline ==
    /\ pc = "pipelines"
    /\ ConfigField(PipelineTypes[loop.type]) \in DOMAIN config.lists
    /\ loop.pipeline <= Len(config.lists[ConfigField(PipelineTypes[loop.type])])
    /\ LET out == migrate_pipeline(dataset,
                      config.lists[ConfigField(PipelineTypes[loop.type])]
                          [loop.pipeline],
                      PipelineTypes[loop.type], call.dry_run)
       IN  /\ dataset' = out.dataset
           /\ IF Raised(out.ret)
              THEN MigFail(out.ret.exc) /\ UNCHANGED loop
              ELSE /\ loop' = [loop EXCEPT !.pipeline = @ + 1]
                   /\ UNCHANGED <<pc, ret>>
    /\ UNCHANGED <<config, MigUnused>>

\* Line 183: the list of the pipeline type is done and leaves the
\* configuration.
PopPipelineField ==
    /\ pc = "pipelines"
    /\ ConfigField(PipelineTypes[loop.type]) \in DOMAIN config.lists
    /\ loop.pipeline > Len(config.lists[ConfigField(PipelineTypes[loop.type])])
    /\ config' = [config EXCEPT !.lists =
           [f \in DOMAIN @ \ {ConfigField(PipelineTypes[loop.type])} |-> @[f]]]
    /\ NextType
    /\ UNCHANGED <<ret, dataset, MigUnused>>

\* Lines 185-202: the extra subdirectories that look like unused pipelines
\* are deleted.
MigrateExtras ==
    /\ pc = "extras"
    /\ LET unused == {e \in dataset.pipelines.entries :
                         /\ e.where = "top"
                         /\ e.name \in get_extra_pipelines_subdirs(dataset.pipelines)
                         /\ HasDash(e.name)
                         /\ e.descriptor}
       IN  dataset' = IfNotDryRun(call.dry_run,
               [dataset EXCEPT !.pipelines.entries = @ \ unused], dataset)
    /\ pc' = "config"
    /\ UNCHANGED <<ret, config, loop, MigUnused>>

\* Lines 207-219: global_config.json renamed to its back-up and the new one
\* written.
MigrateConfig ==
    /\ pc = "config"
    /\ dataset' = IfNotDryRun(call.dry_run,
           [dataset EXCEPT
               !.config_backups = @ \cup {[timestamp |-> call.timestamp,
                                           config |-> dataset.config]},
               !.config = [exists |-> TRUE, deprecated |-> config.deprecated,
                           lists |-> config.lists]],
           dataset)
    /\ pc' = "status"
    /\ UNCHANGED <<ret, config, loop, MigUnused>>

\* Lines 222-240: doughnut.tsv and imaging_bagel.tsv renamed.
MigrateStatusFiles ==
    /\ pc = "status"
    /\ dataset' = IfNotDryRun(call.dry_run,
           [dataset EXCEPT
               !.doughnut = FALSE,
               !.curation_status = @ \/ dataset.doughnut,
               !.imaging_bagel = FALSE,
               !.processing_status = @ \/ dataset.imaging_bagel],
           dataset)
    /\ pc' = "done"
    /\ ret' = Return("None")
    /\ UNCHANGED <<config, loop, MigUnused>>

InitMigrate ==
    /\ call \in [fn : {"migrate_dataset"}, dry_run : BOOLEAN,
                 timestamp : {"T1"}, dataset : Datasets]
    /\ dataset = call.dataset
    /\ config = [name |-> "none"]
    /\ loop = [type |-> 0, pipeline |-> 0]
    /\ pc = "migrate_dataset"
    /\ ret = NoRet
    /\ files = NoFiles
    /\ bids_df = {}
    /\ metadata_df = {}
    /\ filter_spec = [name |-> "none"]
    /\ metadata_participants = {}
    /\ datatype_participants = {}
    /\ count_df = [columns |-> <<>>, rows |-> <<>>]
    /\ filtered_df = [columns |-> <<>>, rows |-> <<>>]
    /\ availability_df = <<>>
    /\ steps = <<>>

NextMigrate ==
    \/ MigrateStart
    \/ MigrateBackup
    \/ SkipPipelineType
    \/ MigratePipeline
    \/ PopPipelineField
    \/ MigrateExtras
    \/ MigrateConfig
    \/ MigrateStatusFiles

SpecMigrate == InitMigrate /\ [][NextMigrate]_vars

-----------------------------------------------------------------------------
(* migrate_dataset called again on the same dataset, without dry_run.  Each *)
(* call is a new run of the script, with the TIMESTAMP of its start (line   *)
(* 10).  call.previous holds, for each earlier call, what it returned or    *)
(* raised and the dataset it started from.                                  *)

MaxCalls == 2        \* calls of migrate_dataset on the same dataset

\* Line 10: the time the n-th run of the script started.
TimestampOf(n) == CASE n = 1 -> "T1" [] n = 2 -> "T2" [] OTHER -> "T3"

\* The pipeline migrate_pipeline raised on (lines 80, 84, 115).
FailedPipeline ==
    [name |-> config.lists[ConfigField(PipelineTypes[loop.type])][loop.pipeline],
     type |-> PipelineTypes[loop.type]]

\* After a call that raised in migrate_pipeline, the cause is removed by
\* hand: the pipeline directory is put in place without a config.json and
\* nothing is in the way at its target.
FixCause ==
    /\ pc = "failed"
    /\ loop.type > 0
    /\ dataset' = [dataset EXCEPT !.pipelines.entries =
           {e \in @ : ~(/\ e.name = FailedPipeline.name
                        /\ e.where \in {"top", FailedPipeline.type})}
           \cup {[where |-> "top", name |-> FailedPipeline.name,
                  config_json |-> FALSE, descriptor |-> TRUE]}]
    /\ pc' = "fixed"
    /\ UNCHANGED <<ret, config, loop, MigUnused>>

\* Lines 243-264: the script is run again on the dataset as it is now.
CallAgain ==
    /\ pc \in {"done", "fixed"}
    /\ Len(call.previous) + 1 < MaxCalls
    /\ call' = [call EXCEPT
           !.previous = Append(@, [ret |-> ret, dataset |-> call.dataset]),
           !.timestamp = TimestampOf(Len(call.previous) + 2),
           !.dataset = dataset]
    /\ ret' = NoRet
    /\ config' = [name |-> "none"]
    /\ loop' = [type |-> 0, pipeline |-> 0]
    /\ pc' = "migrate_dataset"
    /\ UNCHANGED <<dataset, files, bids_df, metadata_df, filter_spec,
                   metadata_participants, datatype_participants, count_df,
                   filtered_df, availability_df, steps>>

InitRemigrate ==
    /\ call \in [fn : {"migrate_dataset"}, dry_run : {FALSE},
                 timestamp : {TimestampOf(1)}, dataset : Datasets,
                 previous : {<<>>}]
    /\ dataset = call.dataset
    /\ config = [name |-> "none"]
    /\ loop = [type |-> 0, pipeline |-> 0]
    /\ pc = "migrate_dataset"
    /\ ret = NoRet
    /\ files = NoFiles
    /\ bids_df = {}
    /\ metadata_df = {}
    /\ filter_spec = [name |-> "none"]
    /\ metadata_participants = {}
    /\ datatype_participants = {}
    /\ count_df = [columns |-> <<>>, rows |-> <<>>]
    /\ filtered_df = [columns |-> <<>>, rows |-> <<>>]
    /\ availability_df = <<>>
    /\ steps = <<>>

NextRemigrate ==
    \/ MigrateStart
    \/ MigrateBackup
    \/ SkipPipelineType
    \/ MigratePipeline
    \/ PopPipelineField
    \/ MigrateExtras
    \/ MigrateConfig
    \/ MigrateStatusFiles
    \/ FixCause
    \/ CallAgain

SpecRemigrate == InitRemigrate /\ [][NextRemigrate]_vars

-----------------------------------------------------------------------------
(* Properties of filter_by_protocol_counts (SpecProtocol). *)

\* Subject S is in the participant list of session X of a returned table.
InList(table, S, X) ==
    \E i \in 1..Len(table.rows) :
        table.rows[i].ses = X /\ S \in Range(table.rows[i].participants)

Listed(table) == {<<S, X>> \in Subs \X Sess : InList(table, S, X)}

\* C1: OR-of-AND.  For every count table, protocol_spec and value of
\* force_exact_counts, subject S is in the participant list of session X iff
\* some row with sub = S and ses = X satisfies at least one criterion group in
\* full: every (column, required) pair of the group, with == when
\* force_exact_counts is true and >= when it is false.
C1_OrOfAnd ==
    (call.fn \in {"filter_by_protocol_counts", "save_participant_lists"}
        /\ Returned(ret)) =>
    \A S \in Subs, X \in Sess :
        InList(ret.value, S, X) <=>
            \E i \in 1..Len(call.count_df.rows) :
                LET row == call.count_df.rows[i] IN
                /\ row.sub = S
                /\ row.ses = X
                /\ \E g \in 1..Len(call.protocol_spec) :
                       \A tag \in DOMAIN call.protocol_spec[g] :
                           IF call.force_exact_counts
                           THEN row[tag] = call.protocol_spec[g][tag]
                           ELSE row[tag] >= call.protocol_spec[g][tag]

\* C1's case: two groups, one of them with two pairs, a row that is listed
\* and a row that is not.
C1_Witness ==
    /\ call.fn = "filter_by_protocol_counts"
    /\ Returned(ret)
    /\ Len(call.protocol_spec) = 2
    /\ \E g \in 1..2 : Cardinality(DOMAIN call.protocol_spec[g]) = 2
    /\ \E i, j \in 1..Len(call.count_df.rows) :
           /\ InList(ret.value, call.count_df.rows[i].sub, call.count_df.rows[i].ses)
           /\ ~InList(ret.value, call.count_df.rows[j].sub, call.count_df.rows[j].ses)

\* C5: fail-closed default.  With protocol_spec the empty list, no row of the
\* count table is marked criteria met, the returned table has no session, and
\* save_participant_lists writes no participant list file.
C5_EmptySpecFailClosed ==
    (call.fn \in {"filter_by_protocol_counts", "save_participant_lists"}
        /\ call.protocol_spec = <<>> /\ Returned(ret)) =>
    /\ \A i \in 1..Len(call.count_df.rows) :
           call.count_df.rows[i]["criteria_met"] = FALSE
    /\ ret.value.rows = <<>>
    /\ \A path \in DOMAIN files : files[path].kind # "file"

\* C5's case: an empty protocol_spec evaluated on a table that has rows, and
\* the result handed to save_participant_lists.
C5_Witness ==
    /\ call.fn = "save_participant_lists"
    /\ call.protocol_spec = <<>>
    /\ Len(call.count_df.rows) > 0
    /\ \A path \in DOMAIN files : files[path].kind # "file"

\* C7: for every count table and protocol_spec, and for every session, the
\* participants returned with force_exact_counts = true are a subset of those
\* returned with force_exact_counts = false.
C7_ExactSubsetOfAtLeast ==
    (call.fn = "filter_by_protocol_counts" /\ Returned(ret)) =>
    LET other == filter_by_protocol_counts(call.count_df, call.protocol_spec,
                                           ~call.force_exact_counts)
        exact == IF call.force_exact_counts THEN ret ELSE other
        atleast == IF call.force_exact_counts THEN other ELSE ret
    IN  /\ Returned(other)
        /\ Listed(exact.value) \subseteq Listed(atleast.value)

\* C7's case: the exact match lists someone and strictly fewer than >= does.
C7_Witness ==
    /\ call.fn = "filter_by_protocol_counts"
    /\ Returned(ret)
    /\ call.force_exact_counts
    /\ Listed(ret.value) # {}
    /\ Listed(ret.value) #
           Listed(filter_by_protocol_counts(call.count_df, call.protocol_spec,
                                            FALSE).value)

-----------------------------------------------------------------------------
(* Properties of filter_by_datatype (SpecDatatype). *)

\* The datatypes a subject has among the records selected at line 107.
SelectedDatatypes(df, datatypes, S) ==
    {r.datatype : r \in {q \in df : q.sub = S /\ q.datatype \in Range(datatypes)}}

\* C2: for every imaging index and every non-empty required_datatypes list,
\* lists that name a datatype more than once included, the subjects retained
\* are exactly those whose set of datatypes among the selected records equals
\* required_datatypes taken as a set.  (The empty list is C6's case.)
C2_RetainedIffAllRequired ==
    (call.fn = "filter_by_datatype" /\ Returned(ret)
        /\ call.datatypes # <<>>) =>
    \A S \in SubjectsOf(call.bids_df) :
        S \in SubjectsOf(ret.value) <=>
            SelectedDatatypes(call.bids_df, call.datatypes, S)
                = Range(call.datatypes)

\* C6: with required_datatypes empty, every subject present in the imaging
\* index passes the datatype filter.
C6_EmptyIsPassThrough ==
    (call.fn = "filter_by_datatype" /\ Returned(ret)
        /\ call.datatypes = <<>>) =>
    SubjectsOf(call.bids_df) \subseteq SubjectsOf(ret.value)

-----------------------------------------------------------------------------
(* Properties of filter_by_metadata (SpecMetadata). *)

\* The orders in which the items of a criteria mapping can be listed.
ItemOrders(items) ==
    {p \in [1..Len(items) -> Range(items)] : Range(p) = Range(items)}

\* C3: filter_by_metadata is a conjunction over tags that does not depend on
\* the tag order: every permutation of the (tag, allowed_values) pairs gives
\* the same final subject set, and every subject of that set satisfies every
\* listed tag constraint.
C3_OrderIndependentConjunction ==
    (call.fn = "filter_by_metadata" /\ Returned(ret)) =>
    /\ \A p \in ItemOrders(call.metadata_criteria) :
           SubjectsOf(filter_by_metadata(call.metadata_df, p))
               = SubjectsOf(ret.value)
    /\ \A S \in SubjectsOf(ret.value) :
           \A i \in 1..Len(call.metadata_criteria) :
               \E r \in call.metadata_df :
                   /\ r.sub = S
                   /\ r[call.metadata_criteria[i].tag]
                          \in call.metadata_criteria[i].value

\* C3's case: two tag constraints satisfied by different subject sets, which
\* together keep one subject and remove another.
C3_Witness ==
    /\ call.fn = "filter_by_metadata"
    /\ Returned(ret)
    /\ Len(call.metadata_criteria) = 2
    /\ SubjectsOf(ret.value) # {}
    /\ SubjectsOf(ret.value) # SubjectsOf(call.metadata_df)
    /\ SubjectsWithTag(call.metadata_df, call.metadata_criteria[1].tag,
                       call.metadata_criteria[1].value)
           # SubjectsWithTag(call.metadata_df, call.metadata_criteria[2].tag,
                             call.metadata_criteria[2].value)

-----------------------------------------------------------------------------
(* Properties of create_count_table (SpecCountTable). *)

KeyOf(row, cols) == [c \in cols |-> row[c]]

RowsWithKey(table, key) ==
    {i \in 1..Len(table.rows) : KeyOf(table.rows[i], DOMAIN key) = key}

\* C8 as stated: exactly one row per distinct combination of groupby_cols
\* values present in the input records (a record without a session has the
\* combination of its subject and no session), and each count is the number
\* of distinct values of the column among the records of the group.
C8_OneRowPerCombination ==
    (call.fn = "create_count_table" /\ Returned(ret)) =>
    LET cols == Range(call.groupby_cols)
        present == {KeyOf(r, cols) : r \in call.bids_df}
    IN  /\ \A key \in present : Cardinality(RowsWithKey(ret.value, key)) = 1
        /\ \A i \in 1..Len(ret.value.rows) :
               /\ KeyOf(ret.value.rows[i], cols) \in present
               /\ \A c \in Range(call.count_cols) :
                      ret.value.rows[i][CountColName(c)] =
                          Cardinality({r[c] : r \in
                              {q \in call.bids_df :
                                  KeyOf(q, cols) = KeyOf(ret.value.rows[i], cols)}}
                              \ {NA})

\* C8 amended: one row per distinct combination of groupby_cols values among
\* the records that have a value in every groupby column, and each count is
\* the number of distinct non-missing values of the column in the group.
C8_OneRowPerCompleteCombination ==
    (call.fn = "create_count_table" /\ Returned(ret)) =>
    LET cols == Range(call.groupby_cols)
        complete == {r \in call.bids_df : \A c \in cols : r[c] # NA}
        present == {KeyOf(r, cols) : r \in complete}
    IN  /\ \A key \in present : Cardinality(RowsWithKey(ret.value, key)) = 1
        /\ \A i \in 1..Len(ret.value.rows) :
               /\ KeyOf(ret.value.rows[i], cols) \in present
               /\ \A c \in Range(call.count_cols) :
                      ret.value.rows[i][CountColName(c)] =
                          Cardinality({r[c] : r \in
                              {q \in complete :
                                  KeyOf(q, cols) = KeyOf(ret.value.rows[i], cols)}}
                              \ {NA})

\* C8's case: a group in which two records repeat a value of the counted
\* column, so that the count is smaller than the number of records.
C8_Witness ==
    /\ call.fn = "create_count_table"
    /\ Returned(ret)
    /\ Len(ret.value.rows) >= 2
    /\ \E i \in 1..Len(ret.value.rows) :
           LET key == KeyOf(ret.value.rows[i], Range(call.groupby_cols))
           IN  /\ \E r1, r2 \in GroupRows(call.bids_df, key) :
                      r1 # r2 /\ r1.run = r2.run /\ r1.run # NA
               /\ ret.value.rows[i]["n_runs"] = 1

-----------------------------------------------------------------------------
(* Properties of run (Spec). *)

\* The files this run has written under the directory of its specification.
OutputFiles ==
    {path \in DOMAIN files :
        /\ files[path].kind = "file"
        /\ path \notin {IndexPath, MetadataPath}}

\* The subjects of a count table and of the participant lists made from it.
CountTableSubjects == {count_df.rows[i].sub : i \in 1..Len(count_df.rows)}
EmittedSubjects ==
    UNION {Range(filtered_df.rows[i].participants) :
              i \in 1..Len(filtered_df.rows)}
    \cup UNION {Range(files[path].data) :
                   path \in OutputFiles \ {CountTablePath, FilteredPath}}

\* C4: the imaging index is restricted to the intersection of the
\* metadata-passing and datatype-passing subject sets before the count table
\* is built: every subject of the count table, and of any emitted participant
\* list, belongs to both sets.
C4_CountTableWithinBothSets ==
    (call.fn = "run") =>
    /\ CountTableSubjects \subseteq metadata_participants \cap datatype_participants
    /\ EmittedSubjects \subseteq metadata_participants \cap datatype_participants

\* C4's case: a completed run that emitted a list, with a subject of the
\* index who passed the datatype filter and not the metadata filter.
C4_Witness ==
    /\ pc = "done"
    /\ EmittedSubjects # {}
    /\ datatype_participants \ metadata_participants # {}

\* The required keys a specification lacks.
MissingKeys(spec) ==
    {k \in {"scanner_metadata", "criteria", "groupby_cols", "count_cols"} :
        ~HasKey(spec, k)}
    \cup IF HasKey(spec, "criteria")
         THEN {k \in {"extra_options", "scanner_metadata", "datatypes",
                      "protocol_spec"} : ~HasKey(spec.criteria, k)}
         ELSE {}

\* C9: if the selected specification lacks a required key, run fails before
\* any filter step executes and without having written an output file, and
\* never runs to completion.
C9_FailsFastOnMissingKey ==
    (call.fn = "run" /\ pc \notin {"get_bids_df", "load_spec"}
        /\ MissingKeys(filter_spec) # {}) =>
    /\ pc # "done"
    /\ steps = <<>>
    /\ OutputFiles = {}

\* C10: if a stage of run fails after a complete specification was loaded,
\* none of the output files of that specification has been written.
C10_NoOutputOnFailure ==
    (call.fn = "run" /\ pc = "failed" /\ MissingKeys(filter_spec) = {}) =>
    OutputFiles = {}

-----------------------------------------------------------------------------
(* Properties of calls that name an unknown column (SpecColumns). *)

\* The columns a protocol_spec names that the table did not have when it was
\* passed in (criteria_met is the column the call itself adds).
AbsentTags(table, protocol_spec) ==
    UNION {DOMAIN protocol_spec[i] : i \in 1..Len(protocol_spec)}
        \ (Range(table.columns) \ {"criteria_met"})

-----------------------------------------------------------------------------
(* Properties of the participant lists of run (Spec). *)

\* force_exact_counts as run reads it at line 226.
ForceOf(spec) ==
    IF HasKey(spec.criteria.extra_options, "force_exact_counts")
    THEN spec.criteria.extra_options.force_exact_counts
    ELSE FALSE

\* The subjects that match in session X: those with a count-table row of that
\* session that satisfies some criterion group of the specification in full.
MatchingSubjects(X) ==
    {count_df.rows[i].sub :
        i \in {j \in 1..Len(count_df.rows) :
            /\ count_df.rows[j].ses = X
            /\ \E g \in 1..Len(filter_spec.criteria.protocol_spec) :
                   \A tag \in DOMAIN filter_spec.criteria.protocol_spec[g] :
                       IF ForceOf(filter_spec)
                       THEN count_df.rows[j][tag] =
                                filter_spec.criteria.protocol_spec[g][tag]
                       ELSE count_df.rows[j][tag] >=
                                filter_spec.criteria.protocol_spec[g][tag]}}

\* C12: a completed run has written <output_dir>/<spec_name>/
\* participants_<session>.txt for a session iff that session has at least one
\* matching participant; the file holds exactly that session's matching
\* subjects, one per line and each once; no other list file, and no empty one,
\* is written.
C12_ListFileIffMatches ==
    (call.fn = "run" /\ pc = "done") =>
    /\ \A X \in Sess :
           LET path == ParticipantListPath(OutputDir, SpecName, X)
           IN  /\ path \in DOMAIN files <=> MatchingSubjects(X) # {}
               /\ path \in DOMAIN files =>
                      /\ files[path].kind = "file"
                      /\ Range(files[path].data) = MatchingSubjects(X)
                      /\ Len(files[path].data) = Cardinality(MatchingSubjects(X))
    /\ OutputFiles \subseteq
           {CountTablePath, FilteredPath}
               \cup {ParticipantListPath(OutputDir, SpecName, X) : X \in Sess}

\* C12's case: a completed run with a list file for one session and a session
\* of the count table without a match and without a file.
C12_Witness ==
    /\ call.fn = "run"
    /\ pc = "done"
    /\ \E X, Y \in Sess :
           /\ ParticipantListPath(OutputDir, SpecName, X) \in DOMAIN files
           /\ MatchingSubjects(X) # {}
           /\ ParticipantListPath(OutputDir, SpecName, Y) \notin DOMAIN files
           /\ \E i \in 1..Len(count_df.rows) : count_df.rows[i].ses = Y

-----------------------------------------------------------------------------
(* Properties of two parallel runs (SpecParallel). *)

\* What process p produces when it is the only run: it reads the cached
\* tables as they are on disk, or the dataset.
Alone(p) ==
    RunFrom(NoFiles, p, call.spec[p], call.index, call.sidecars,
            ~call.read_metadata_df[p])

\* The outputs of specification p among the files fs: its count table, its
\* filtered-participants table and its participant lists.
OutputPathsOf(p) ==
    {CountTablePathOf(p), FilteredPathOf(p)}
        \cup {ParticipantListPath(OutputDir, p, X) : X \in Sess}
OutputsOf(fs, p) ==
    [path \in DOMAIN fs \cap OutputPathsOf(p) |-> fs[path]]

\* C13: two runs for different specification names on the same dataset and
\* output_dir, under any interleaving of their steps: each run ends as it
\* does when executed alone, with the same outcome and the same count table,
\* filtered-participants table and participant list files.
C13_ParallelAsAlone ==
    (call.fn = "parallel") =>
    \A p \in Procs :
        pc[p] \in {"done", "failed"} =>
            /\ ret[p] = Alone(p).ret
            /\ OutputsOf(files, p) = OutputsOf(Alone(p).files, p)

-----------------------------------------------------------------------------
(* Frame of run (Spec). *)

\* The paths under <output_dir>/<spec_name>/, and output_dir itself, which
\* has to exist for that directory to exist.
SpecDirPaths ==
    {OutputDir, SpecDir, CountTablePath, FilteredPath}
        \cup {ParticipantListPath(OutputDir, SpecName, X) : X \in Sess}

\* C14: a run for specification name N creates or modifies files only under
\* <output_dir>/<N>/: every step of run leaves every other path, the cached
\* index and the cached metadata table in particular, as it was.
C14_WritesOnlyUnderSpecDir ==
    [][\A path \in DOMAIN files' :
          (path \notin DOMAIN files \/ files'[path] # files[path]) =>
              path \in SpecDirPaths]_vars

-----------------------------------------------------------------------------
(* Emission order of the participant lists of run (Spec). *)

\* A list of subjects in ascending order of subject id, each once: the one
\* order that the set of its subjects determines.
Ascending(list) ==
    \A i, j \in 1..Len(list) : i < j => Rank(list[i]) < Rank(list[j])

\* C15: stable emission order.  The participants of a session are emitted, in
\* the returned table and in participants_<session>.txt, in ascending order
\* of subject id, whatever the order of the columns in groupby_cols.
C15_EmissionOrderAscending ==
    (call.fn = "run") =>
    /\ \A i \in 1..Len(filtered_df.rows) :
           Ascending(filtered_df.rows[i].participants)
    /\ \A X \in Sess :
           LET path == ParticipantListPath(OutputDir, SpecName, X)
           IN  path \in DOMAIN files => Ascending(files[path].data)

-----------------------------------------------------------------------------
(* Frame of filter_by_protocol_counts (SpecProtocol). *)

\* C16: filter_by_protocol_counts is pure: the count table passed in has the
\* same columns and rows after the call as before it.
C16_CountTableUnchanged ==
    [][call.fn = "filter_by_protocol_counts" =>
          call'.count_df = call.count_df]_vars

-----------------------------------------------------------------------------
(* Names of the count columns (SpecCountTable). *)

\* A protocol_spec of one criterion on the column of that name.
CriterionOn(name) == <<(name :> 0)>>

\* C17 as stated: for every counting column c of count_cols the count table
\* has the column n_<c>, the prefix n_ followed by the column name unchanged.
C17_CountColumnNamedPlain ==
    (call.fn = "create_count_table" /\ Returned(ret)) =>
    \A i \in 1..Len(call.count_cols) :
        ("n_" \o call.count_cols[i]) \in Range(ret.value.columns)

\* C17 amended: for every counting column c of count_cols the column that
\* holds its distinct-value count is named n_<c>s (n_runs for run); the table
\* has, after the groupby columns, these columns in the order of count_cols
\* and no column n_<c>; n_<c>s is the key a criterion has to use, a criterion
\* on n_<c> names an unknown column.
C17_CountColumnNamedPlural ==
    (call.fn = "create_count_table" /\ Returned(ret)) =>
    /\ ret.value.columns =
           call.groupby_cols \o
               [i \in 1..Len(call.count_cols) |->
                   "n_" \o call.count_cols[i] \o "s"]
    /\ \A i \in 1..Len(call.count_cols) :
           LET c == call.count_cols[i]
           IN  /\ \A k \in 1..Len(ret.value.rows) :
                      /\ ("n_" \o c \o "s") \in DOMAIN ret.value.rows[k]
                      /\ ("n_" \o c) \notin DOMAIN ret.value.rows[k]
                      /\ ret.value.rows[k]["n_" \o c \o "s"] \in 0..MaxRecords
               /\ ~UnknownTag(ret.value, CriterionOn("n_" \o c \o "s"))
               /\ UnknownTag(ret.value, CriterionOn("n_" \o c))

\* C17's case: a count table with rows and two counting columns.
C17_Witness ==
    /\ call.fn = "create_count_table"
    /\ Returned(ret)
    /\ call.count_cols = <<"run", "datatype">>
    /\ Len(ret.value.rows) >= 2
    /\ \E k \in 1..Len(ret.value.rows) : ret.value.rows[k]["n_runs"] = 2

-----------------------------------------------------------------------------
(* Properties of migrate_dataset (SpecMigrate). *)

\* C18: migrate_dataset called with dry_run=True applies no change: from any
\* starting dataset, at every step and whether it returns or raises, the
\* pipelines directory, global_config.json, the back-ups and the status files
\* are as they were before the call.
C18_DryRunChangesNothing ==
    (call.fn = "migrate_dataset" /\ call.dry_run) => dataset = call.dataset

\* C18's case: a dry run that went through every change it announces: a
\* listed pipeline found in place, an extra subdirectory it would delete, and
\* status files it would rename.
C18_Witness ==
    /\ call.fn = "migrate_dataset"
    /\ call.dry_run
    /\ pc = "done"
    /\ ~check_already_migrated(dataset)
    /\ \E f \in DOMAIN dataset.config.lists :
           \E i \in 1..Len(dataset.config.lists[f]) :
               \E e \in dataset.pipelines.entries :
                   e.where = "top" /\ e.name = dataset.config.lists[f][i]
    /\ \E e \in dataset.pipelines.entries :
           /\ e.name \in get_extra_pipelines_subdirs(dataset.pipelines)
           /\ e.where = "top" /\ HasDash(e.name) /\ e.descriptor
    /\ dataset.doughnut
    /\ dataset.imaging_bagel

-----------------------------------------------------------------------------
(* Properties of the availability table of run (Spec). *)

\* C19: in the availability table of every completed run, for every session,
\* the count of the named specification is at most datatype_participants and
\* at most metadata_participants, and both of these are at most
\* total_participants.
C19_AvailabilityMonotone ==
    (call.fn = "run" /\ pc = "done") =>
        \A i \in 1..Len(availability_df) :
            /\ availability_df[i][SpecName]
                   <= availability_df[i]["datatype_participants"]
            /\ availability_df[i][SpecName]
                   <= availability_df[i]["metadata_participants"]
            /\ availability_df[i]["datatype_participants"]
                   <= availability_df[i]["total_participants"]
            /\ availability_df[i]["metadata_participants"]
                   <= availability_df[i]["total_participants"]

-----------------------------------------------------------------------------
(* Properties of repeated runs (SpecRerun). *)

\* The sessions with a row in the filtered table the latest run saved.
SessionsOfLatestRun ==
    {files[FilteredPath].data.rows[i].ses :
        i \in 1..Len(files[FilteredPath].data.rows)}

\* C20: after any sequence of completed runs for the same specification name
\* and output_dir, the participants_<session>.txt files present are exactly
\* those of the sessions with at least one match in the most recent run.
C20_ListsOfLatestRunOnly ==
    (pc = "done" /\ \A i \in 1..Len(steps) : steps[i] = "done") =>
        \A X \in Sess :
            ParticipantListPath(OutputDir, SpecName, X) \in DOMAIN files
                <=> X \in SessionsOfLatestRun

-----------------------------------------------------------------------------
(* Properties of filter_by_metadata across rows (SpecMetadata). *)

\* A metadata row whose tag values are in the allow-lists of all the items.
MeetsAll(row, metadata_criteria) ==
    \A i \in 1..Len(metadata_criteria) :
        row[metadata_criteria[i].tag] \in metadata_criteria[i].value

\* C21: every subject retained by filter_by_metadata has at least one metadata
\* row that satisfies all the tag constraints at once; a subject whose
\* constraints are met only by different rows is not retained.
C21_RetainedHasRowMeetingAll ==
    (call.fn = "filter_by_metadata" /\ Returned(ret)) =>
        \A r \in ret.value :
            \E q \in call.metadata_df :
                q.sub = r.sub /\ MeetsAll(q, call.metadata_criteria)

-----------------------------------------------------------------------------
(* Properties of an empty criterion group (SpecProtocol). *)

HasEmptyGroup(protocol_spec) ==
    \E g \in 1..Len(protocol_spec) : DOMAIN protocol_spec[g] = {}

\* C22: with a protocol_spec that contains an empty criterion group, every row
\* of the count table is marked criteria met, whatever the other groups and
\* force_exact_counts are, and every subject of the count table is listed
\* for each of its sessions.
C22_EmptyGroupFailOpen ==
    (call.fn \in {"filter_by_protocol_counts", "save_participant_lists"}
        /\ HasEmptyGroup(call.protocol_spec) /\ ret # NoRet) =>
    /\ Returned(ret)
    /\ \A i \in 1..Len(call.count_df.rows) :
           /\ call.count_df.rows[i]["criteria_met"] = TRUE
           /\ InList(ret.value, call.count_df.rows[i].sub,
                     call.count_df.rows[i].ses)

\* C22's case: an empty group next to a group that a row of the table does
\* not meet, under exact counts, and that row listed all the same.
C22_Witness ==
    /\ call.fn = "filter_by_protocol_counts"
    /\ Returned(ret)
    /\ call.force_exact_counts
    /\ HasEmptyGroup(call.protocol_spec)
    /\ \E i \in 1..Len(call.count_df.rows) :
           /\ \E g \in 1..Len(call.protocol_spec) :
                  \E tag \in DOMAIN call.protocol_spec[g] :
                      call.count_df.rows[i][tag] # call.protocol_spec[g][tag]
           /\ InList(ret.value, call.count_df.rows[i].sub,
                     call.count_df.rows[i].ses)

-----------------------------------------------------------------------------
(* Properties of repeated migrations (SpecRemigrate). *)

\* The call before the current one.
PreviousCall == call.previous[Len(call.previous)]

\* C23: migration is idempotent on success.  After a migrate_dataset call
\* without dry_run that completed, a second call on the dataset, whether or
\* not its configuration listed a pipeline, raises nothing and creates,
\* renames, deletes or modifies no file or directory.
C23_SecondCallChangesNothing ==
    (call.fn = "migrate_dataset" /\ call.previous # <<>>
        /\ Returned(PreviousCall.ret)) =>
    /\ ~Raised(ret)
    /\ dataset = call.dataset

\* The pipelines the previous call moved into their pipeline-type directory.
MovedByPreviousCall ==
    {e \in call.dataset.pipelines.entries :
        /\ e.where \in Range(PipelineTypes)
        /\ e.config_json
        /\ e \notin PreviousCall.dataset.pipelines.entries}

\* C24: a failed migration can be resumed.  When a call raised in
\* migrate_pipeline after it had moved at least one pipeline, and the cause
\* was fixed, the next call migrates the remaining pipelines and rewrites
\* global_config.json: when it is done, every pipeline the configuration
\* listed is in its pipeline-type directory with its config.json, and the
\* configuration is backed up and without pipeline lists.
C24_FailedMigrationResumes ==
    (call.fn = "migrate_dataset" /\ call.previous # <<>>
        /\ Raised(PreviousCall.ret) /\ MovedByPreviousCall # {}
        /\ pc = "done") =>
    /\ \A i \in 1..Len(PipelineTypes) :
           LET f == ConfigField(PipelineTypes[i])
               lists == call.dataset.config.lists
           IN  f \in DOMAIN lists =>
                   \A k \in 1..Len(lists[f]) :
                       \E e \in dataset.pipelines.entries :
                           /\ e.where = PipelineTypes[i]
                           /\ e.name = lists[f][k]
                           /\ e.config_json
    /\ \E b \in dataset.config_backups : b.timestamp = call.timestamp
    /\ DOMAIN dataset.config.lists = {}

====
